---- MODULE Spec2Model ----
(***************************************************************************)
(* Kinematics and thruster-load primitives of the R/V Gunnerus 4-DOF       *)
(* simulator (mcsimpy/models/rv_gunnerus_4dof: kinematics.py,              *)
(* thrusters.py).                                                          *)
(*                                                                         *)
(* The library is stateless: a caller hands arguments to one function and  *)
(* gets a value back (or an exception, or a console line).  The state of   *)
(* the model is one such call: the function, its arguments, what it        *)
(* returned, what it raised and what it printed.                           *)
(*                                                                         *)
(* Numbers.  The code computes in numpy binary64.  Here a finite number x  *)
(* is the integer round(x * Scale), three decimals; NaN and +/-infinity    *)
(* are values of their own and follow the IEEE-754 rules numpy applies.    *)
(* Angles handed to np.sin/np.cos/np.tan, and the angle np.arctan2 gives   *)
(* back, lie on the coarser grid of 1/100 rad.  That keeps the two facts   *)
(* about binary64 the code's behaviour rests on: no representable angle is *)
(* an exact multiple of pi/2 (np.pi is the grid point just below pi, 3.14),*)
(* and the sine or cosine next to a zero crossing is a nonzero             *)
(* representable number (np.sin(np.pi) is 1.2e-16, here 0.002).            *)
(***************************************************************************)
EXTENDS Integers, Sequences, FiniteSets

VARIABLES pc, fn, args, ret, err, diag

vars == <<pc, fn, args, ret, err, diag>>

(***************************************************************************)
(* Number representation                                                   *)
(***************************************************************************)

\* Fixed-point resolution of a finite binary64 value: x is held as x * Scale.
Scale == 1000

\* Angle grid: trigonometric arguments and np.arctan2 results are multiples of
\* AngleStep (0.01 rad at Scale).
AngleStep == 10


Fin(n) == [k |-> "fin", v |-> n]

NaN == [k |-> "nan", v |-> 0]

PosInf == [k |-> "inf", v |-> 1]

NegInf == [k |-> "inf", v |-> -1]

IsFin(x) == x.k = "fin"

IsNaN(x) == x.k = "nan"

IsInf(x) == x.k = "inf"

\* A whole number n as a value.
Whole(n) == Fin(n * Scale)

AbsI(n) == IF n < 0 THEN -n ELSE n

SgnI(n) == IF n > 0 THEN 1 ELSE IF n < 0 THEN -1 ELSE 0

MaxI(a, b) == IF a >= b THEN a ELSE b

MinI(a, b) == IF a <= b THEN a ELSE b

\* Sign of a value as IEEE sees it (a zero counts as +0).
SignOf(x) == IF IsInf(x) THEN x.v ELSE IF x.v < 0 THEN -1 ELSE 1

InfOf(s) == IF s < 0 THEN NegInf ELSE PosInf

\* round(a * b / Scale) for a, b >= 0, half away from zero, without forming a*b
\* (the larger factor is split at Scale).
MulMag(a, b) ==
  LET big == MaxI(a, b)
      small == MinI(a, b)
  IN (big \div Scale) * small + ((big % Scale) * small + Scale \div 2) \div Scale

\* round(a * Scale / b) for a >= 0, b > 0, half away from zero.
DivMag(a, b) == (a * Scale + b \div 2) \div b

\* floor(sqrt(n)) by bisection on lo..hi.
RECURSIVE ISqrt(_, _, _)
ISqrt(n, lo, hi) ==
  IF lo >= hi THEN lo
  ELSE LET mid == (lo + hi + 1) \div 2
       IN IF mid * mid <= n THEN ISqrt(n, mid, hi) ELSE ISqrt(n, lo, mid - 1)

\* round(sqrt(n)) for n >= 0.
SqrtNearest(n) ==
  LET r == ISqrt(n, 0, 46340)
  IN IF n - r * r > r THEN r + 1 ELSE r

(***************************************************************************)
(* IEEE-754 arithmetic as numpy applies it to binary64 scalars             *)
(***************************************************************************)

FNeg(x) ==
  IF IsNaN(x) THEN NaN
  ELSE IF IsInf(x) THEN InfOf(-x.v)
  ELSE Fin(-x.v)

FAbs(x) ==
  IF IsNaN(x) THEN NaN
  ELSE IF IsInf(x) THEN PosInf
  ELSE Fin(AbsI(x.v))

FAdd(x, y) ==
  IF IsNaN(x) \/ IsNaN(y) THEN NaN
  ELSE IF IsInf(x) /\ IsInf(y) THEN (IF x.v = y.v THEN x ELSE NaN)
  ELSE IF IsInf(x) THEN x
  ELSE IF IsInf(y) THEN y
  ELSE Fin(x.v + y.v)

FSub(x, y) == FAdd(x, FNeg(y))

FMul(x, y) ==
  IF IsNaN(x) \/ IsNaN(y) THEN NaN
  ELSE IF IsInf(x) \/ IsInf(y)
       THEN (IF (IsFin(x) /\ x.v = 0) \/ (IsFin(y) /\ y.v = 0)
             THEN NaN
             ELSE InfOf(SignOf(x) * SignOf(y)))
  ELSE Fin(SgnI(x.v) * SgnI(y.v) * MulMag(AbsI(x.v), AbsI(y.v)))

FDiv(x, y) ==
  IF IsNaN(x) \/ IsNaN(y) THEN NaN
  ELSE IF IsInf(x) THEN (IF IsInf(y) THEN NaN ELSE InfOf(SignOf(x) * SignOf(y)))
  ELSE IF IsInf(y) THEN Fin(0)
  ELSE IF y.v = 0 THEN (IF x.v = 0 THEN NaN ELSE InfOf(SignOf(x)))
  ELSE Fin(SgnI(x.v) * SgnI(y.v) * DivMag(AbsI(x.v), AbsI(y.v)))

\* x > y; any comparison with NaN is False.
FGt(x, y) ==
  IF IsNaN(x) \/ IsNaN(y) THEN FALSE
  ELSE IF IsInf(x) THEN x.v = 1 /\ y # PosInf
  ELSE IF IsInf(y) THEN y.v = -1
  ELSE x.v > y.v

\* np.sqrt
FSqrt(x) ==
  IF IsNaN(x) THEN NaN
  ELSE IF IsInf(x) THEN (IF x.v = 1 THEN PosInf ELSE NaN)
  ELSE IF x.v < 0 THEN NaN
  ELSE Fin(SqrtNearest(x.v * Scale))

\* SinTab[k+1] is sin(k/100 rad) to three decimals, k = 0..1000 (np.sin on the angle grid).
SinTab ==
  <<
    0, 10, 20, 30, 40, 50, 60, 70, 80, 90, 100, 110, 120, 130, 140, 149,
    159, 169, 179, 189, 199, 208, 218, 228, 238, 247, 257, 267, 276, 286, 296, 305,
    315, 324, 333, 343, 352, 362, 371, 380, 389, 399, 408, 417, 426, 435, 444, 453,
    462, 471, 479, 488, 497, 506, 514, 523, 531, 540, 548, 556, 565, 573, 581, 589,
    597, 605, 613, 621, 629, 637, 644, 652, 659, 667, 674, 682, 689, 696, 703, 710,
    717, 724, 731, 738, 745, 751, 758, 764, 771, 777, 783, 790, 796, 802, 808, 813,
    819, 825, 830, 836, 841, 847, 852, 857, 862, 867, 872, 877, 882, 887, 891, 896,
    900, 904, 909, 913, 917, 921, 925, 928, 932, 936, 939, 942, 946, 949, 952, 955,
    958, 961, 964, 966, 969, 971, 973, 976, 978, 980, 982, 984, 985, 987, 989, 990,
    991, 993, 994, 995, 996, 997, 997, 998, 999, 999, 1000, 1000, 1000, 1000, 1000, 1000,
    1000, 999, 999, 998, 998, 997, 996, 995, 994, 993, 992, 990, 989, 987, 986, 984,
    982, 980, 978, 976, 974, 972, 969, 967, 964, 961, 958, 956, 953, 949, 946, 943,
    940, 936, 933, 929, 925, 921, 917, 913, 909, 905, 901, 896, 892, 887, 883, 878,
    873, 868, 863, 858, 853, 848, 842, 837, 831, 826, 820, 814, 808, 803, 797, 790,
    784, 778, 772, 765, 759, 752, 746, 739, 732, 725, 718, 711, 704, 697, 690, 683,
    675, 668, 661, 653, 645, 638, 630, 622, 614, 606, 598, 590, 582, 574, 566, 558,
    549, 541, 533, 524, 516, 507, 498, 490, 481, 472, 463, 454, 445, 436, 427, 418,
    409, 400, 391, 382, 372, 363, 354, 344, 335, 326, 316, 307, 297, 287, 278, 268,
    259, 249, 239, 230, 220, 210, 200, 190, 181, 171, 161, 151, 141, 131, 121, 111,
    101, 91, 82, 72, 62, 52, 42, 32, 22, 12, 2, -8, -18, -28, -38, -48,
    -58, -68, -78, -88, -98, -108, -118, -128, -138, -148, -158, -168, -177, -187, -197, -207,
    -217, -226, -236, -246, -256, -265, -275, -284, -294, -304, -313, -323, -332, -341, -351, -360,
    -369, -379, -388, -397, -406, -415, -424, -434, -443, -451, -460, -469, -478, -487, -495, -504,
    -513, -521, -530, -538, -547, -555, -563, -572, -580, -588, -596, -604, -612, -620, -628, -635,
    -643, -651, -658, -666, -673, -680, -688, -695, -702, -709, -716, -723, -730, -737, -744, -750,
    -757, -763, -770, -776, -782, -789, -795, -801, -807, -812, -818, -824, -830, -835, -841, -846,
    -851, -856, -862, -867, -872, -876, -881, -886, -890, -895, -899, -904, -908, -912, -916, -920,
    -924, -928, -931, -935, -939, -942, -945, -948, -952, -955, -958, -960, -963, -966, -968, -971,
    -973, -975, -978, -980, -982, -983, -985, -987, -988, -990, -991, -993, -994, -995, -996, -997,
    -997, -998, -999, -999, -999, -1000, -1000, -1000, -1000, -1000, -1000, -999, -999, -998, -998, -997,
    -996, -995, -994, -993, -992, -991, -989, -988, -986, -984, -982, -981, -979, -976, -974, -972,
    -970, -967, -964, -962, -959, -956, -953, -950, -947, -944, -940, -937, -933, -930, -926, -922,
    -918, -914, -910, -906, -901, -897, -893, -888, -883, -879, -874, -869, -864, -859, -854, -849,
    -843, -838, -832, -827, -821, -815, -809, -804, -798, -791, -785, -779, -773, -766, -760, -753,
    -747, -740, -733, -726, -720, -713, -706, -698, -691, -684, -677, -669, -662, -654, -647, -639,
    -631, -623, -616, -608, -600, -592, -584, -575, -567, -559, -551, -542, -534, -525, -517, -508,
    -500, -491, -482, -473, -465, -456, -447, -438, -429, -420, -411, -402, -392, -383, -374, -365,
    -355, -346, -336, -327, -318, -308, -299, -289, -279, -270, -260, -250, -241, -231, -221, -212,
    -202, -192, -182, -172, -162, -153, -143, -133, -123, -113, -103, -93, -83, -73, -63, -53,
    -43, -33, -23, -13, -3, 7, 17, 27, 37, 47, 57, 67, 77, 87, 97, 107,
    117, 126, 136, 146, 156, 166, 176, 186, 196, 205, 215, 225, 235, 244, 254, 264,
    273, 283, 292, 302, 312, 321, 330, 340, 349, 359, 368, 377, 386, 396, 405, 414,
    423, 432, 441, 450, 459, 468, 477, 485, 494, 503, 511, 520, 528, 537, 545, 554,
    562, 570, 578, 587, 595, 603, 611, 618, 626, 634, 642, 649, 657, 664, 672, 679,
    687, 694, 701, 708, 715, 722, 729, 736, 743, 749, 756, 762, 769, 775, 781, 788,
    794, 800, 806, 812, 817, 823, 829, 834, 840, 845, 850, 856, 861, 866, 871, 876,
    880, 885, 890, 894, 899, 903, 907, 911, 916, 920, 923, 927, 931, 934, 938, 941,
    945, 948, 951, 954, 957, 960, 963, 965, 968, 970, 973, 975, 977, 979, 981, 983,
    985, 987, 988, 990, 991, 992, 994, 995, 996, 996, 997, 998, 999, 999, 999, 1000,
    1000, 1000, 1000, 1000, 1000, 999, 999, 998, 998, 997, 996, 995, 994, 993, 992, 991,
    989, 988, 986, 985, 983, 981, 979, 977, 975, 972, 970, 967, 965, 962, 959, 957,
    954, 950, 947, 944, 941, 937, 934, 930, 926, 923, 919, 915, 911, 906, 902, 898,
    893, 889, 884, 879, 875, 870, 865, 860, 855, 849, 844, 839, 833, 828, 822, 816,
    810, 804, 798, 792, 786, 780, 774, 767, 761, 754, 748, 741, 734, 728, 721, 714,
    707, 700, 692, 685, 678, 670, 663, 655, 648, 640, 633, 625, 617, 609, 601, 593,
    585, 577, 569, 560, 552, 544, 535, 527, 518, 510, 501, 492, 484, 475, 466, 457,
    448, 439, 430, 421, 412, 403, 394, 385, 375, 366, 357, 347, 338, 329, 319, 310,
    300, 291, 281, 271, 262, 252, 242, 233, 223, 213, 203, 194, 184, 174, 164, 154,
    144, 134, 124, 115, 105, 95, 85, 75, 65, 55, 45, 35, 25, 15, 5, -5,
    -15, -25, -35, -45, -55, -65, -75, -85, -95, -105, -115, -125, -135, -145, -155, -164,
    -174, -184, -194, -204, -214, -223, -233, -243, -252, -262, -272, -281, -291, -301, -310, -320,
    -329, -338, -348, -357, -366, -376, -385, -394, -403, -413, -422, -431, -440, -449, -458, -466,
    -475, -484, -493, -501, -510, -519, -527, -536, -544
  >>

\* CosTab[k+1] is cos(k/100 rad) to three decimals, k = 0..1000 (np.cos on the angle grid).
CosTab ==
  <<
    1000, 1000, 1000, 1000, 999, 999, 998, 998, 997, 996, 995, 994, 993, 992, 990, 989,
    987, 986, 984, 982, 980, 978, 976, 974, 971, 969, 966, 964, 961, 958, 955, 952,
    949, 946, 943, 939, 936, 932, 929, 925, 921, 917, 913, 909, 905, 900, 896, 892,
    887, 882, 878, 873, 868, 863, 858, 853, 847, 842, 836, 831, 825, 820, 814, 808,
    802, 796, 790, 784, 778, 771, 765, 758, 752, 745, 738, 732, 725, 718, 711, 704,
    697, 689, 682, 675, 667, 660, 652, 645, 637, 629, 622, 614, 606, 598, 590, 582,
    574, 565, 557, 549, 540, 532, 523, 515, 506, 498, 489, 480, 471, 462, 454, 445,
    436, 427, 418, 408, 399, 390, 381, 372, 362, 353, 344, 334, 325, 315, 306, 296,
    287, 277, 267, 258, 248, 238, 229, 219, 209, 199, 190, 180, 170, 160, 150, 140,
    130, 121, 111, 101, 91, 81, 71, 61, 51, 41, 31, 21, 11, 1, -9, -19,
    -29, -39, -49, -59, -69, -79, -89, -99, -109, -119, -129, -139, -149, -159, -168, -178,
    -188, -198, -208, -217, -227, -237, -247, -256, -266, -276, -285, -295, -304, -314, -323, -333,
    -342, -352, -361, -370, -379, -389, -398, -407, -416, -425, -434, -443, -452, -461, -470, -479,
    -487, -496, -505, -513, -522, -531, -539, -547, -556, -564, -572, -580, -589, -597, -605, -612,
    -620, -628, -636, -644, -651, -659, -666, -674, -681, -688, -696, -703, -710, -717, -724, -731,
    -737, -744, -751, -757, -764, -770, -777, -783, -789, -795, -801, -807, -813, -819, -824, -830,
    -836, -841, -846, -852, -857, -862, -867, -872, -877, -882, -886, -891, -895, -900, -904, -908,
    -912, -916, -920, -924, -928, -932, -935, -939, -942, -946, -949, -952, -955, -958, -961, -963,
    -966, -969, -971, -973, -976, -978, -980, -982, -984, -985, -987, -989, -990, -991, -993, -994,
    -995, -996, -997, -997, -998, -999, -999, -1000, -1000, -1000, -1000, -1000, -1000, -1000, -999, -999,
    -998, -998, -997, -996, -995, -994, -993, -992, -990, -989, -987, -986, -984, -982, -980, -978,
    -976, -974, -972, -969, -967, -964, -961, -959, -956, -953, -950, -947, -943, -940, -936, -933,
    -929, -926, -922, -918, -914, -910, -905, -901, -897, -892, -888, -883, -878, -874, -869, -864,
    -859, -853, -848, -843, -837, -832, -826, -821, -815, -809, -803, -797, -791, -785, -779, -772,
    -766, -759, -753, -746, -740, -733, -726, -719, -712, -705, -698, -691, -683, -676, -669, -661,
    -654, -646, -638, -631, -623, -615, -607, -599, -591, -583, -575, -567, -558, -550, -542, -533,
    -525, -516, -508, -499, -490, -482, -473, -464, -455, -446, -437, -428, -419, -410, -401, -392,
    -382, -373, -364, -355, -345, -336, -326, -317, -307, -298, -288, -279, -269, -259, -250, -240,
    -230, -221, -211, -201, -191, -181, -172, -162, -152, -142, -132, -122, -112, -102, -92, -82,
    -72, -62, -52, -42, -32, -22, -12, -2, 8, 18, 28, 38, 48, 58, 68, 78,
    87, 97, 107, 117, 127, 137, 147, 157, 167, 177, 187, 196, 206, 216, 226, 235,
    245, 255, 264, 274, 284, 293, 303, 312, 322, 331, 341, 350, 359, 369, 378, 387,
    396, 406, 415, 424, 433, 442, 451, 460, 469, 477, 486, 495, 503, 512, 521, 529,
    538, 546, 554, 563, 571, 579, 587, 595, 603, 611, 619, 627, 635, 642, 650, 658,
    665, 673, 680, 687, 694, 702, 709, 716, 723, 730, 736, 743, 750, 756, 763, 769,
    776, 782, 788, 794, 800, 806, 812, 818, 824, 829, 835, 840, 846, 851, 856, 861,
    866, 871, 876, 881, 886, 890, 895, 899, 903, 908, 912, 916, 920, 924, 927, 931,
    935, 938, 942, 945, 948, 951, 954, 957, 960, 963, 966, 968, 971, 973, 975, 977,
    979, 981, 983, 985, 987, 988, 990, 991, 992, 994, 995, 996, 997, 997, 998, 999,
    999, 999, 1000, 1000, 1000, 1000, 1000, 1000, 999, 999, 998, 998, 997, 996, 995, 994,
    993, 992, 991, 989, 988, 986, 984, 983, 981, 979, 977, 974, 972, 970, 967, 965,
    962, 959, 956, 953, 950, 947, 944, 940, 937, 933, 930, 926, 922, 918, 914, 910,
    906, 902, 897, 893, 888, 884, 879, 874, 869, 864, 859, 854, 849, 844, 838, 833,
    827, 821, 816, 810, 804, 798, 792, 786, 780, 773, 767, 760, 754, 747, 741, 734,
    727, 720, 713, 706, 699, 692, 685, 677, 670, 662, 655, 647, 640, 632, 624, 616,
    608, 600, 592, 584, 576, 568, 560, 551, 543, 535, 526, 518, 509, 500, 492, 483,
    474, 465, 456, 448, 439, 430, 420, 411, 402, 393, 384, 375, 365, 356, 347, 337,
    328, 318, 309, 299, 290, 280, 271, 261, 251, 242, 232, 222, 212, 203, 193, 183,
    173, 163, 153, 143, 134, 124, 114, 104, 94, 84, 74, 64, 54, 44, 34, 24,
    14, 4, -6, -16, -26, -36, -46, -56, -66, -76, -86, -96, -106, -116, -126, -136,
    -146, -155, -165, -175, -185, -195, -205, -214, -224, -234, -244, -253, -263, -273, -282, -292,
    -301, -311, -320, -330, -339, -349, -358, -367, -377, -386, -395, -404, -413, -422, -431, -440,
    -449, -458, -467, -476, -485, -493, -502, -511, -519, -528, -536, -545, -553, -561, -570, -578,
    -586, -594, -602, -610, -618, -626, -633, -641, -649, -656, -664, -671, -679, -686, -693, -700,
    -708, -715, -722, -728, -735, -742, -749, -755, -762, -768, -775, -781, -787, -793, -799, -805,
    -811, -817, -823, -828, -834, -839, -845, -850, -855, -860, -865, -870, -875, -880, -885, -889,
    -894, -898, -903, -907, -911, -915, -919, -923, -927, -931, -934, -938, -941, -944, -948, -951,
    -954, -957, -960, -962, -965, -968, -970, -973, -975, -977, -979, -981, -983, -985, -986, -988,
    -990, -991, -992, -993, -995, -996, -996, -997, -998, -999, -999, -999, -1000, -1000, -1000, -1000,
    -1000, -1000, -999, -999, -998, -998, -997, -996, -995, -994, -993, -992, -991, -989, -988, -986,
    -985, -983, -981, -979, -977, -975, -972, -970, -968, -965, -962, -960, -957, -954, -951, -948,
    -944, -941, -938, -934, -930, -927, -923, -919, -915, -911, -907, -903, -898, -894, -889, -885,
    -880, -875, -870, -865, -860, -855, -850, -844, -839
  >>

\* TanTab[k+1] is tan(k/100 rad) to three decimals, k = 0..1000 (np.tan on the angle grid).
TanTab ==
  <<
    0, 10, 20, 30, 40, 50, 60, 70, 80, 90, 100, 110, 121, 131, 141, 151,
    161, 172, 182, 192, 203, 213, 224, 234, 245, 255, 266, 277, 288, 298, 309, 320,
    331, 343, 354, 365, 376, 388, 399, 411, 423, 435, 447, 459, 471, 483, 495, 508,
    521, 533, 546, 559, 573, 586, 599, 613, 627, 641, 655, 670, 684, 699, 714, 729,
    745, 760, 776, 792, 809, 825, 842, 860, 877, 895, 913, 932, 950, 970, 989, 1009,
    1030, 1050, 1072, 1093, 1116, 1138, 1162, 1185, 1210, 1235, 1260, 1286, 1313, 1341, 1369, 1398,
    1428, 1459, 1491, 1524, 1557, 1592, 1628, 1665, 1704, 1743, 1784, 1827, 1871, 1917, 1965, 2014,
    2066, 2120, 2176, 2234, 2296, 2360, 2427, 2498, 2572, 2650, 2733, 2820, 2912, 3010, 3113, 3224,
    3341, 3467, 3602, 3747, 3903, 4072, 4256, 4455, 4673, 4913, 5177, 5471, 5798, 6165, 6581, 7055,
    7602, 8238, 8989, 9887, 10983, 12350, 14101, 16428, 19670, 24498, 32461, 48078, 92620, 1255766, -108649, -52067,
    -34233, -25495, -20307, -16871, -14427, -12599, -11181, -10047, -9121, -8349, -7697, -7137, -6652, -6228, -5854, -5520,
    -5222, -4953, -4710, -4489, -4286, -4100, -3929, -3771, -3624, -3488, -3361, -3242, -3130, -3026, -2927, -2834,
    -2746, -2663, -2584, -2509, -2438, -2370, -2306, -2244, -2185, -2129, -2074, -2022, -1973, -1925, -1878, -1834,
    -1791, -1750, -1710, -1671, -1634, -1598, -1563, -1529, -1496, -1464, -1433, -1403, -1374, -1345, -1318, -1291,
    -1264, -1239, -1214, -1189, -1165, -1142, -1119, -1097, -1075, -1054, -1033, -1012, -992, -973, -953, -935,
    -916, -898, -880, -862, -845, -828, -811, -795, -779, -763, -747, -732, -716, -701, -686, -672,
    -657, -643, -629, -615, -602, -588, -575, -561, -548, -535, -523, -510, -497, -485, -473, -461,
    -448, -437, -425, -413, -401, -390, -378, -367, -356, -344, -333, -322, -311, -300, -289, -278,
    -268, -257, -246, -236, -225, -215, -204, -194, -184, -173, -163, -153, -143, -132, -122, -112,
    -102, -92, -82, -72, -62, -52, -42, -32, -22, -12, -2, 8, 18, 28, 38, 48,
    58, 69, 79, 89, 99, 109, 119, 129, 139, 150, 160, 170, 180, 191, 201, 211,
    222, 232, 243, 254, 264, 275, 286, 297, 308, 319, 330, 341, 352, 363, 375, 386,
    398, 409, 421, 433, 445, 457, 469, 481, 493, 506, 519, 531, 544, 557, 570, 584,
    597, 611, 625, 639, 653, 667, 682, 697, 712, 727, 742, 758, 774, 790, 806, 823,
    840, 857, 874, 892, 910, 929, 947, 967, 986, 1006, 1026, 1047, 1068, 1090, 1112, 1135,
    1158, 1182, 1206, 1231, 1256, 1282, 1309, 1336, 1365, 1394, 1424, 1454, 1486, 1518, 1552, 1587,
    1622, 1659, 1697, 1737, 1778, 1820, 1864, 1910, 1957, 2006, 2058, 2111, 2167, 2225, 2286, 2350,
    2416, 2486, 2560, 2638, 2719, 2806, 2897, 2994, 3096, 3206, 3322, 3447, 3580, 3723, 3878, 4044,
    4225, 4422, 4637, 4873, 5134, 5422, 5743, 6104, 6511, 6975, 7509, 8130, 8860, 9733, 10793, 12110,
    13790, 16008, 19071, 23577, 30864, 44657, 80713, 418588, -131386, -56777, -36208, -26575, -20988, -17339, -14768, -12859,
    -11385, -10212, -9257, -8463, -7794, -7221, -6725, -6292, -5910, -5571, -5267, -4994, -4747, -4523, -4317, -4129,
    -3956, -3796, -3647, -3509, -3381, -3260, -3148, -3042, -2942, -2849, -2760, -2676, -2597, -2521, -2449, -2381,
    -2316, -2254, -2194, -2137, -2083, -2031, -1980, -1932, -1886, -1841, -1798, -1756, -1716, -1677, -1640, -1604,
    -1568, -1534, -1501, -1469, -1438, -1408, -1378, -1350, -1322, -1295, -1268, -1243, -1218, -1193, -1169, -1146,
    -1123, -1100, -1079, -1057, -1036, -1016, -996, -976, -957, -938, -919, -901, -883, -865, -848, -831,
    -814, -797, -781, -765, -750, -734, -719, -704, -689, -674, -660, -645, -631, -617, -604, -590,
    -577, -564, -550, -537, -525, -512, -499, -487, -475, -462, -450, -438, -427, -415, -403, -392,
    -380, -369, -357, -346, -335, -324, -313, -302, -291, -280, -269, -259, -248, -238, -227, -216,
    -206, -196, -185, -175, -165, -154, -144, -134, -124, -114, -104, -93, -83, -73, -63, -53,
    -43, -33, -23, -13, -3, 7, 17, 27, 37, 47, 57, 67, 77, 87, 97, 107,
    117, 127, 138, 148, 158, 168, 179, 189, 199, 210, 220, 231, 241, 252, 263, 273,
    284, 295, 306, 317, 328, 339, 350, 361, 373, 384, 396, 407, 419, 431, 443, 455,
    467, 479, 491, 504, 517, 529, 542, 555, 568, 582, 595, 609, 623, 636, 651, 665,
    679, 694, 709, 724, 740, 755, 771, 787, 803, 820, 837, 854, 871, 889, 907, 926,
    944, 964, 983, 1003, 1023, 1044, 1065, 1086, 1109, 1131, 1154, 1178, 1202, 1227, 1252, 1278,
    1305, 1332, 1360, 1389, 1419, 1449, 1481, 1513, 1547, 1581, 1617, 1653, 1691, 1731, 1771, 1813,
    1857, 1902, 1949, 1998, 2049, 2102, 2158, 2216, 2276, 2339, 2405, 2475, 2548, 2625, 2706, 2792,
    2882, 2978, 3080, 3188, 3303, 3426, 3558, 3700, 3852, 4017, 4196, 4390, 4602, 4834, 5090, 5374,
    5690, 6043, 6443, 6897, 7419, 8024, 8735, 9582, 10609, 11879, 13492, 15608, 18507, 22722, 29416, 41691,
    71518, 251152, -166156, -62423, -38426, -27752, -21715, -17833, -15125, -13129, -11597, -10383, -9397, -8581, -7893, -7307,
    -6800, -6357, -5968, -5622, -5314, -5036, -4785, -4557, -4349, -4158, -3982, -3820, -3670, -3530, -3400, -3279,
    -3165, -3058, -2958, -2863, -2774, -2689, -2609, -2533, -2461, -2392, -2326, -2263, -2204, -2146, -2091, -2039,
    -1988, -1940, -1893, -1848, -1805, -1763, -1722, -1683, -1646, -1609, -1574, -1540, -1506, -1474, -1443, -1413,
    -1383, -1354, -1326, -1299, -1273, -1247, -1222, -1197, -1173, -1149, -1126, -1104, -1082, -1061, -1040, -1019,
    -999, -979, -960, -941, -922, -904, -886, -868, -850, -833, -817, -800, -784, -768, -752, -736,
    -721, -706, -691, -676, -662, -648, -634, -620, -606, -592, -579, -566, -553, -540, -527, -514,
    -501, -489, -477, -464, -452, -440, -428, -417, -405, -393, -382, -370, -359, -348, -337, -326,
    -315, -304, -293, -282, -271, -260, -250, -239, -229, -218, -208, -197, -187, -177, -166, -156,
    -146, -136, -125, -115, -105, -95, -85, -75, -65, -55, -45, -35, -25, -15, -5, 5,
    15, 25, 35, 45, 55, 65, 75, 85, 96, 106, 116, 126, 136, 146, 156, 167,
    177, 187, 198, 208, 219, 229, 240, 250, 261, 272, 282, 293, 304, 315, 326, 337,
    348, 360, 371, 382, 394, 405, 417, 429, 441, 453, 465, 477, 490, 502, 515, 527,
    540, 553, 566, 580, 593, 607, 620, 634, 648
  >>

\* Index of the grid angle nearest to the finite value n (a multiple of
\* AngleStep is its own grid angle).
GridIndex(n) == (AbsI(n) + AngleStep \div 2) \div AngleStep

\* np.sin: odd, NaN for a non-finite argument.
FSin(x) ==
  IF ~IsFin(x) THEN NaN
  ELSE Fin(SgnI(x.v) * SinTab[GridIndex(x.v) + 1])

\* np.cos: even, NaN for a non-finite argument.
FCos(x) ==
  IF ~IsFin(x) THEN NaN
  ELSE Fin(CosTab[GridIndex(x.v) + 1])

\* np.tan: odd, NaN for a non-finite argument.
FTan(x) ==
  IF ~IsFin(x) THEN NaN
  ELSE Fin(SgnI(x.v) * TanTab[GridIndex(x.v) + 1])

\* np.pi as a value, and as a grid angle (the grid point nearest to pi).
PiVal == 3142

PiGrid == 314

HalfPiGrid == 157

\* Signed distance measure y*cos(k) - x*sin(k) = |(x,y)| * sin(theta - k) between
\* the direction theta of (x, y) and grid angle k.
Cross(y, x, k) == y * CosTab[k + 1] - x * SinTab[k + 1]

\* Largest grid index k in lo..hi with Cross(y, x, k) >= 0, for y >= 0, where
\* Cross is >= 0 up to the direction of (x, y) and < 0 beyond it.
RECURSIVE LastBelow(_, _, _, _)
LastBelow(y, x, lo, hi) ==
  IF lo >= hi THEN lo
  ELSE LET mid == (lo + hi + 1) \div 2
       IN IF Cross(y, x, mid) >= 0 THEN LastBelow(y, x, mid, hi)
          ELSE LastBelow(y, x, lo, mid - 1)

\* Grid index in 0..PiGrid nearest to the direction of (x, y), for y >= 0 and
\* (x, y) # (0, 0).
NearestIndex(y, x) ==
  LET k == LastBelow(y, x, 0, PiGrid)
  IN IF k < PiGrid /\ AbsI(Cross(y, x, k + 1)) < AbsI(Cross(y, x, k))
     THEN k + 1 ELSE k

\* np.arctan2(y, x): the result carries the sign of y and lies in
\* [-np.pi, np.pi]; the IEEE special cases for infinite arguments.
FAtan2(y, x) ==
  IF IsNaN(y) \/ IsNaN(x) THEN NaN
  ELSE IF IsInf(y) /\ IsInf(x)
       THEN Fin(y.v * (IF x.v = 1 THEN 79 ELSE 236) * AngleStep)
  ELSE IF IsInf(y) THEN Fin(y.v * HalfPiGrid * AngleStep)
  ELSE IF IsInf(x) THEN (IF x.v = 1 THEN Fin(0)
                         ELSE Fin(SignOf(y) * PiGrid * AngleStep))
  ELSE IF y.v = 0 THEN (IF x.v >= 0 THEN Fin(0) ELSE Fin(PiGrid * AngleStep))
  ELSE Fin(SgnI(y.v) * NearestIndex(AbsI(y.v), x.v) * AngleStep)

(***************************************************************************)
(* Vectors and matrices (np.array, @, np.concatenate)                      *)
(***************************************************************************)

Zero == Fin(0)

One == Fin(Scale)

\* sum(p[1..n]) accumulated left to right.
RECURSIVE SumTo(_, _)
SumTo(p, n) == IF n = 1 THEN p[1] ELSE FAdd(SumTo(p, n - 1), p[n])

\* Row vector times column vector.
Dot(r, c) == SumTo([i \in 1..Len(r) |-> FMul(r[i], c[i])], Len(r))

\* A @ x for a matrix A (a tuple of rows) and a vector x.
MatVec(A, x) == [i \in 1..Len(A) |-> Dot(A[i], x)]

\* A @ B for matrices A, B (tuples of rows).
MatMul(A, B) ==
  [i \in 1..Len(A) |->
    [j \in 1..Len(B[1]) |-> Dot(A[i], [m \in 1..Len(B) |-> B[m][j]])]]

\* s * x for a scalar s and a vector x.
ScaleVec(s, x) == [i \in 1..Len(x) |-> FMul(s, x[i])]

(***************************************************************************)
(* kinematics.py                                                           *)
(***************************************************************************)

\* rad2pipi with the arguments of np.arctan2 in the wrong order.
rad2pipi_swapped(angle) == FAtan2(FCos(angle), FSin(angle))

\* rad2pipi(angle): np.arctan2(np.sin(angle), np.cos(angle)).
rad2pipi(angle) == FAtan2(FSin(angle), FCos(angle))

Rotx(angle) ==
  << <<One, Zero, Zero>>,
     <<Zero, FCos(angle), FNeg(FSin(angle))>>,
     <<Zero, FSin(angle), FCos(angle)>> >>

\* Roty with the sign of the lower-left sine lost.
Roty_sign(angle) ==
  << <<FCos(angle), Zero, FSin(angle)>>,
     <<Zero, One, Zero>>,
     <<FSin(angle), Zero, FCos(angle)>> >>

Roty(angle) ==
  << <<FCos(angle), Zero, FSin(angle)>>,
     <<Zero, One, Zero>>,
     <<FNeg(FSin(angle)), Zero, FCos(angle)>> >>

Rotz(angle) ==
  << <<FCos(angle), FNeg(FSin(angle)), Zero>>,
     <<FSin(angle), FCos(angle), Zero>>,
     <<Zero, Zero, One>> >>

\* angles = [phi, theta, psi]: Rotz(angles[2]) @ Roty(angles[1]) @ Rotx(angles[0])
\* (Python indices from 0, here from 1).
Rotzyx(angles) == MatMul(MatMul(Rotz(angles[3]), Roty(angles[2])), Rotx(angles[1]))

\* Smat with the sign of one entry lost.
Smat_sign(x) ==
  << <<Zero, FNeg(x[3]), x[2]>>,
     <<x[3], Zero, x[1]>>,
     <<FNeg(x[2]), x[1], Zero>> >>

Smat(x) ==
  << <<Zero, FNeg(x[3]), x[2]>>,
     <<x[3], Zero, FNeg(x[1])>>,
     <<FNeg(x[2]), x[1], Zero>> >>

dot_eta3(psi, nu) == MatVec(Rotz(psi), nu)

\* The Euler-rate matrix T of dot_eta6.
EulerRateT(phi, theta) ==
  << <<One, FMul(FSin(phi), FTan(theta)), FMul(FCos(phi), FTan(theta))>>,
     <<Zero, FCos(phi), FNeg(FSin(phi))>>,
     <<Zero, FDiv(FSin(phi), FCos(theta)), FDiv(FCos(phi), FCos(theta))>> >>

\* dot_eta6(eta, nu): no branch, no raise; the position eta[0:3] is not read.
dot_eta6(eta, nu) ==
  LET Rzyx == Rotzyx(SubSeq(eta, 4, 6))
      phi == eta[4]
      theta == eta[5]
      T == EulerRateT(phi, theta)
  IN MatVec(Rzyx, SubSeq(nu, 1, 3)) \o MatVec(T, SubSeq(nu, 4, 6))

Rot_planar(angle) ==
  << <<FCos(angle), FNeg(FSin(angle))>>,
     <<FSin(angle), FCos(angle)>> >>

dot_eta4(psi, nu) ==
  LET R == << <<FCos(psi), FNeg(FSin(psi)), Zero, Zero>>,
              <<FSin(psi), FCos(psi), Zero, Zero>>,
              <<Zero, Zero, One, Zero>>,
              <<Zero, Zero, Zero, One>> >>
  IN MatVec(R, nu)

(***************************************************************************)
(* thrusters.py                                                            *)
(***************************************************************************)

eps1 == <<One, Zero, Zero>>

\* forceAzi3 keeping tau6[[0, 1, 2]]: heave where the yaw moment belongs.
forceAzi3_heave(force, azi, loc) ==
  LET S == Smat(loc)
      R == Rotz(azi)
      tau6 == ScaleVec(force, MatVec(R, eps1) \o MatVec(MatMul(S, R), eps1))
  IN <<tau6[1], tau6[2], tau6[3]>>

\* forceAzi3 builds the 6DOF vector itself and keeps tau6[[0, 1, 5]].
forceAzi3(force, azi, loc) ==
  LET S == Smat(loc)
      R == Rotz(azi)
      tau6 == ScaleVec(force, MatVec(R, eps1) \o MatVec(MatMul(S, R), eps1))
  IN <<tau6[1], tau6[2], tau6[6]>>

\* forceAzi6 with the moment built from R @ S instead of S @ R.
forceAzi6_swapped(force, azi, loc) ==
  LET S == Smat(loc)
      R == Rotz(azi)
      tau == ScaleVec(force, MatVec(R, eps1) \o MatVec(MatMul(R, S), eps1))
  IN tau

forceAzi6(force, azi, loc) ==
  LET S == Smat(loc)
      R == Rotz(azi)
      tau == ScaleVec(force, MatVec(R, eps1) \o MatVec(MatMul(S, R), eps1))
  IN tau

\* aoa = -inflow_angle + angle, inflow_angle = np.arctan2(v, u)
AngleOfAttack(u, v, angle) == FAdd(FNeg(FAtan2(v, u)), angle)

\* The threshold at the 30 degrees the warning text names.
aoa_max_30 == FDiv(FMul(Whole(30), Fin(PiVal)), Whole(180))

\* aoa_max = 35 * np.pi / 180
aoa_max == FDiv(FMul(Whole(35), Fin(PiVal)), Whole(180))

\* The condition of the warning branch: np.abs(aoa) > aoa_max.
OutOfRange(aoa) == FGt(FAbs(aoa), aoa_max)

\* Ct with the factor 2.8 the source has commented out.
Ct_scaled == FMul(Fin(2200), Fin(2800))

\* Ct = 2.2 * 1
Ct == FMul(Fin(2200), Whole(1))

\* A thrust that reverses with the propeller: Ct * revs * |revs|.
Fthrust_signed(revs) == FMul(Ct, FMul(revs, FAbs(revs)))

\* Fthrust = Ct * revs**2
Fthrust(revs) == FMul(Ct, FMul(revs, revs))

\* The value RVGazimuth_man returns: the statements before and after the
\* warning branch, which assigns nothing.
FoilAndThrust(u, v, angle, revs) ==
  LET V == FSqrt(FAdd(FMul(u, u), FMul(v, v)))
      aoa == AngleOfAttack(u, v, angle)
      Cd == FAdd(Fin(300), FMul(FAbs(aoa), Fin(300)))
      Cl == FMul(Fin(500), FSin(FMul(Whole(2), aoa)))
      A == Whole(9)
      rho == Whole(1000)
      V2 == FMul(V, V)
      Fdrag == FMul(FMul(FMul(FMul(Fin(500), rho), A), Cd), V2)
      Flift == FMul(FMul(FMul(FMul(Fin(500), rho), A), Cl), V2)
      Ffoilx == FAdd(FMul(FNeg(Fdrag), FCos(aoa)), FMul(Flift, FSin(aoa)))
      Ffoily == FAdd(FMul(Flift, FCos(aoa)), FMul(Fdrag, FSin(aoa)))
      Ft == Fthrust(revs)
      Fx == FSub(FAdd(FMul(Ft, FCos(angle)), FMul(Ffoilx, FCos(angle))),
                 FMul(Ffoily, FSin(angle)))
      Fy == FAdd(FAdd(FMul(Ft, FSin(angle)), FMul(Ffoilx, FSin(angle))),
                 FMul(Ffoily, FCos(angle)))
  IN <<Fx, Fy>>

\* round(x) of a finite x: the nearest integer, a tie to the even one.
RoundHalfEven(n) ==
  LET q == AbsI(n) \div Scale
      r == AbsI(n) % Scale
      up == r * 2 > Scale \/ (r * 2 = Scale /\ q % 2 = 1)
  IN SgnI(n) * (IF up THEN q + 1 ELSE q)

\* aoa * 180 / np.pi, the number the warning rounds and prints.
AoaDegrees(aoa) == FDiv(FMul(aoa, Whole(180)), Fin(PiVal))

\* RVGazimuth_man(u, v, angle, revs): what it returns, prints and raises.  In the
\* warning branch round() converts to a Python int, so an infinite aoa raises
\* OverflowError before anything is printed (a NaN aoa never enters the branch:
\* the comparison is False).
RVGazimuth_man(u, v, angle, revs) ==
  LET aoa == AngleOfAttack(u, v, angle)
      warn == OutOfRange(aoa)
      deg == AoaDegrees(aoa)
  IN IF warn /\ ~IsFin(deg)
     THEN [ret |-> NaN, diag |-> <<>>, err |-> "OverflowError"]
     ELSE [ret |-> FoilAndThrust(u, v, angle, revs),
           diag |-> IF warn
                    THEN <<[text |-> "Warning (thrusters.RVGazimuth_man): Angle of attack",
                            deg |-> RoundHalfEven(deg.v),
                            range |-> 30]>>
                    ELSE <<>>,
           err |-> "none"]

(***************************************************************************)
(* Inputs                                                                  *)
(***************************************************************************)

\* rad2pipi is called with every grid angle within +/- MaxAngle/100 rad.
MaxAngle == 900

\* Rotx, Roty, Rotz and Rot_planar are called with every grid angle within
\* +/- MaxRot/100 rad.
MaxRot == 320

\* Euler angles, headings and azimuths: multiples of 0.5 rad up to
\* MaxEuler/2 rad, and np.pi/2, np.pi on the grid.
MaxEuler == 2

\* Velocity and location components are whole numbers within +/- MaxVel.
MaxVel == 1

\* Thruster forces are whole numbers within +/- MaxForce, and two more.
MaxForce == 1

\* Surge and sway speeds are whole numbers within +/- MaxSpeed, and the
\* calibration speed.
MaxSpeed == 1

\* Azimuth angles of the manoeuvring model: every grid angle within
\* +/- MaxAzi/100 rad.
MaxAzi == 70

\* Propeller revolutions within +/- MaxRevs, and +/- the calibration rpm.
MaxRevs == 1

\* "calibrated towards fmu data for maneuvering speeds (u=5m/s, revs=165)"
CalSpeed == 5

CalRevs == 165

NonFinite == {NaN, PosInf, NegInf}

WrapAngles == {Fin(k * AngleStep) : k \in -MaxAngle..MaxAngle}

RotAngles == {Fin(k * AngleStep) : k \in -MaxRot..MaxRot}

EulerAngles ==
  {Fin(k * 50 * AngleStep) : k \in -MaxEuler..MaxEuler}
    \cup {Fin(s * HalfPiGrid * AngleStep) : s \in {-1, 1}}
    \cup {Fin(s * PiGrid * AngleStep) : s \in {-1, 1}}

Wholes(m) == {Whole(n) : n \in -m..m}

Vec3s == {<<a, b, c>> : a \in Wholes(MaxVel), b \in Wholes(MaxVel), c \in Wholes(MaxVel)}

\* A vector along one axis, or along the diagonal, or zero.
AxisVecs ==
  {<<Zero, Zero, Zero>>}
    \cup UNION {{<<Whole(n), Zero, Zero>>, <<Zero, Whole(n), Zero>>,
                 <<Zero, Zero, Whole(n)>>, <<Whole(n), Whole(-n), Whole(n)>>}
                : n \in 1..MaxVel}

Forces == Wholes(MaxForce) \cup {Whole(100), Fin(1500)}

Locations == Vec3s \cup {<<Whole(-10), Zero, Zero>>, <<Fin(2500), Fin(-500), One>>}

Speeds == Wholes(MaxSpeed)

AziAngles == {Fin(k * AngleStep) : k \in -MaxAzi..MaxAzi}

Revs == Wholes(MaxRevs) \cup {Whole(CalRevs), Whole(-CalRevs)}

\* Arguments of the manoeuvring model with one of them not finite.
NonFiniteRVG ==
  UNION {{<<x, Zero, Zero, Whole(CalRevs)>>, <<Whole(CalSpeed), x, Zero, Zero>>,
          <<Whole(CalSpeed), Zero, x, Whole(CalRevs)>>, <<One, One, Fin(500), x>>}
         : x \in NonFinite}

(***************************************************************************)
(* The calls                                                               *)
(***************************************************************************)

NoArgs == [none |-> TRUE]

Init ==
  /\ pc = "idle"
  /\ fn = "none"
  /\ args = NoArgs
  /\ ret = NaN
  /\ err = "none"
  /\ diag = <<>>

\* A call of f with arguments a that runs to its return statement.
Returns(f, a, r) ==
  /\ pc' = "returned"
  /\ fn' = f
  /\ args' = a
  /\ ret' = r
  /\ err' = "none"
  /\ diag' = <<>>

Call_rad2pipi ==
  /\ pc = "idle"
  /\ \E angle \in WrapAngles \cup NonFinite :
       Returns("rad2pipi", [angle |-> angle], rad2pipi(angle))

Call_Rotx ==
  /\ pc = "idle"
  /\ \E angle \in RotAngles \cup NonFinite :
       Returns("Rotx", [angle |-> angle], Rotx(angle))

Call_Roty ==
  /\ pc = "idle"
  /\ \E angle \in RotAngles \cup NonFinite :
       Returns("Roty", [angle |-> angle], Roty(angle))

Call_Rotz ==
  /\ pc = "idle"
  /\ \E angle \in RotAngles \cup NonFinite :
       Returns("Rotz", [angle |-> angle], Rotz(angle))

Call_Rotzyx ==
  /\ pc = "idle"
  /\ \/ \E phi \in EulerAngles, theta \in EulerAngles, psi \in EulerAngles :
          Returns("Rotzyx", [angles |-> <<phi, theta, psi>>], Rotzyx(<<phi, theta, psi>>))
     \/ \E x \in NonFinite :
          Returns("Rotzyx", [angles |-> <<Zero, x, Zero>>], Rotzyx(<<Zero, x, Zero>>))

Call_Rot_planar ==
  /\ pc = "idle"
  /\ \E angle \in RotAngles \cup NonFinite :
       Returns("Rot_planar", [angle |-> angle], Rot_planar(angle))

Call_Smat ==
  /\ pc = "idle"
  /\ \/ \E x \in Vec3s \cup {<<Fin(2500), Fin(-500), One>>} :
          Returns("Smat", [x |-> x], Smat(x))
     \/ \E x \in NonFinite :
          Returns("Smat", [x |-> <<One, x, Zero>>], Smat(<<One, x, Zero>>))

Call_dot_eta3 ==
  /\ pc = "idle"
  /\ \/ \E psi \in EulerAngles, nu \in Vec3s :
          Returns("dot_eta3", [psi |-> psi, nu |-> nu], dot_eta3(psi, nu))
     \/ \E x \in NonFinite, nu \in {<<One, Zero, Zero>>} :
          Returns("dot_eta3", [psi |-> x, nu |-> nu], dot_eta3(x, nu))
     \/ \E x \in NonFinite, psi \in {Zero} :
          Returns("dot_eta3", [psi |-> psi, nu |-> <<x, Zero, Zero>>],
                  dot_eta3(psi, <<x, Zero, Zero>>))

Call_dot_eta4 ==
  /\ pc = "idle"
  /\ \/ \E psi \in EulerAngles, nu3 \in AxisVecs, r \in Wholes(MaxVel) :
          Returns("dot_eta4", [psi |-> psi, nu |-> nu3 \o <<r>>],
                  dot_eta4(psi, nu3 \o <<r>>))
     \/ \E x \in NonFinite, nu \in {<<One, Zero, Zero, Zero>>} :
          Returns("dot_eta4", [psi |-> x, nu |-> nu], dot_eta4(x, nu))

Call_dot_eta6 ==
  /\ pc = "idle"
  /\ \/ \E phi \in EulerAngles, theta \in EulerAngles, psi \in {Zero, Fin(50 * AngleStep)},
           lin \in AxisVecs, ang \in AxisVecs :
          LET eta == <<Zero, Zero, Zero, phi, theta, psi>>
          IN Returns("dot_eta6", [eta |-> eta, nu |-> lin \o ang], dot_eta6(eta, lin \o ang))
     \/ \E x \in NonFinite, i \in 1..6, ofEta \in BOOLEAN :
          LET base == <<One, Zero, Zero, Zero, Fin(50 * AngleStep), Zero>>
              unit == <<One, Zero, Zero, Zero, One, Zero>>
              eta == IF ofEta THEN [base EXCEPT ![i] = x] ELSE base
              nu == IF ofEta THEN unit ELSE [unit EXCEPT ![i] = x]
          IN Returns("dot_eta6", [eta |-> eta, nu |-> nu], dot_eta6(eta, nu))

Call_forceAzi3 ==
  /\ pc = "idle"
  /\ \/ \E force \in Forces, azi \in EulerAngles, loc \in Locations :
          Returns("forceAzi3", [force |-> force, azi |-> azi, loc |-> loc],
                  forceAzi3(force, azi, loc))
     \/ \E x \in NonFinite :
          Returns("forceAzi3", [force |-> x, azi |-> Zero, loc |-> <<One, Zero, Zero>>],
                  forceAzi3(x, Zero, <<One, Zero, Zero>>))

Call_forceAzi6 ==
  /\ pc = "idle"
  /\ \/ \E force \in Forces, azi \in EulerAngles, loc \in Locations :
          Returns("forceAzi6", [force |-> force, azi |-> azi, loc |-> loc],
                  forceAzi6(force, azi, loc))
     \/ \E x \in NonFinite :
          Returns("forceAzi6", [force |-> x, azi |-> Zero, loc |-> <<One, Zero, Zero>>],
                  forceAzi6(x, Zero, <<One, Zero, Zero>>))

\* RVGazimuth_man called with <<u, v, angle, revs>>: it returns, having printed
\* or not, or it raises.
Outcome_RVGazimuth_man(a) ==
  \E out \in {RVGazimuth_man(a[1], a[2], a[3], a[4])} :
     /\ pc' = IF out.err = "none" THEN "returned" ELSE "raised"
     /\ fn' = "RVGazimuth_man"
     /\ args' = [u |-> a[1], v |-> a[2], angle |-> a[3], revs |-> a[4]]
     /\ ret' = out.ret
     /\ err' = out.err
     /\ diag' = out.diag

Call_RVGazimuth_man ==
  /\ pc = "idle"
  /\ \/ \E u \in Speeds \cup {Whole(CalSpeed)}, v \in Speeds, angle \in AziAngles,
          revs \in Revs :
          Outcome_RVGazimuth_man(<<u, v, angle, revs>>)
     \/ \E a \in NonFiniteRVG :
          Outcome_RVGazimuth_man(a)

\* The caller consumes the result or the exception; nothing is kept between
\* calls.
Discard ==
  /\ pc \in {"returned", "raised"}
  /\ pc' = "idle"
  /\ fn' = "none"
  /\ args' = NoArgs
  /\ ret' = NaN
  /\ err' = "none"
  /\ diag' = <<>>

Next ==
  \/ Call_rad2pipi
  \/ Call_Rotx
  \/ Call_Roty
  \/ Call_Rotz
  \/ Call_Rotzyx
  \/ Call_Smat
  \/ Call_dot_eta3
  \/ Call_dot_eta6
  \/ Call_Rot_planar
  \/ Call_dot_eta4
  \/ Call_forceAzi3
  \/ Call_forceAzi6
  \/ Call_RVGazimuth_man
  \/ Discard

Spec == Init /\ [][Next]_vars
(***************************************************************************)
(* Helpers of the properties                                               *)
(***************************************************************************)

AllFin(x) == \A i \in 1..Len(x) : IsFin(x[i])

Transpose(A) == [j \in 1..Len(A[1]) |-> [i \in 1..Len(A) |-> A[i][j]]]

Identity3 == << <<One, Zero, Zero>>, <<Zero, One, Zero>>, <<Zero, Zero, One>> >>

\* The cross product x * y written out by components.
Cross3(x, y) ==
  << FSub(FMul(x[2], y[3]), FMul(x[3], y[2])),
     FSub(FMul(x[3], y[1]), FMul(x[1], y[3])),
     FSub(FMul(x[1], y[2]), FMul(x[2], y[1])) >>

\* The determinant of a 3x3 matrix by the rule of Sarrus.
Det3(A) ==
  LET P(a, b, c) == FMul(FMul(a, b), c)
  IN FSub(FAdd(FAdd(P(A[1][1], A[2][2], A[3][3]), P(A[1][2], A[2][3], A[3][1])),
               P(A[1][3], A[2][1], A[3][2])),
          FAdd(FAdd(P(A[1][3], A[2][2], A[3][1]), P(A[1][2], A[2][1], A[3][3])),
               P(A[1][1], A[2][3], A[3][2])))

\* Finite values a and b differ by at most tol thousandths.
Near(a, b, tol) == IsFin(a) /\ IsFin(b) /\ AbsI(a.v - b.v) <= tol

\* Matrices of finite values that differ by at most tol thousandths entrywise.
MatNear(A, B, tol) ==
  \A i \in 1..Len(A) : \A j \in 1..Len(A[i]) : Near(A[i][j], B[i][j], tol)

\* R is orthonormal and proper to within tol thousandths.
ProperRotation(R, tol) ==
  /\ MatNear(MatMul(Transpose(R), R), Identity3, tol)
  /\ Near(Det3(R), One, tol)

(***************************************************************************)
(* Properties                                                              *)
(***************************************************************************)

\* The call in the state has returned or raised.
Called(f) == pc # "idle" /\ fn = f

\* np.pi as an angle: the grid point nearest to pi.
PiAngle == Fin(PiGrid * AngleStep)

\* Some argument of the call in the state is NaN or infinite.
NonFiniteArgs ==
  CASE fn \in {"rad2pipi", "Rotx", "Roty", "Rotz", "Rot_planar"} -> ~IsFin(args.angle)
    [] fn = "Rotzyx" -> ~AllFin(args.angles)
    [] fn = "Smat" -> ~AllFin(args.x)
    [] fn \in {"dot_eta3", "dot_eta4"} -> ~IsFin(args.psi) \/ ~AllFin(args.nu)
    [] fn = "dot_eta6" -> ~AllFin(args.eta) \/ ~AllFin(args.nu)
    [] fn \in {"forceAzi3", "forceAzi6"} ->
         ~IsFin(args.force) \/ ~IsFin(args.azi) \/ ~AllFin(args.loc)
    [] fn = "RVGazimuth_man" ->
         ~IsFin(args.u) \/ ~IsFin(args.v) \/ ~IsFin(args.angle) \/ ~IsFin(args.revs)
    [] OTHER -> FALSE

FiniteCall(f) == Called(f) /\ ~NonFiniteArgs

\* C1: dot_eta6 fails with SingularTransform, returning no pose rate, whenever
\* |cos(pitch)| is below a small tolerance (here 0.01), for every roll, yaw and
\* body velocity.
C1_SingularPitchRaises ==
  (FiniteCall("dot_eta6") /\ AbsI(FCos(args.eta[5]).v) * 100 < Scale)
    => (pc = "raised" /\ err = "SingularTransform")

\* C2: RVGazimuth_man prints its warning exactly when |aoa| > 35 degrees, with
\* aoa = angle - atan2(v, u) (so not for 30 < |aoa| <= 35 degrees), and the
\* warning is not fatal: with or without it the call returns the (Fx, Fy) of the
\* one formula.  The comparison is |aoa| * 180 > 35 * pi with pi to six decimals.
C2_WarningIffAbove35Degrees ==
  FiniteCall("RVGazimuth_man") =>
    LET aoa == FSub(args.angle, FAtan2(args.v, args.u))
    IN /\ pc = "returned"
       /\ err = "none"
       /\ Len(diag) <= 1
       /\ (Len(diag) = 1) <=> (AbsI(aoa.v) * 180 * Scale > 35 * 3141593)
       /\ ret = FoilAndThrust(args.u, args.v, args.angle, args.revs)

\* A call that warned and returned finite forces all the same.
C2_Witness ==
  /\ FiniteCall("RVGazimuth_man")
  /\ pc = "returned"
  /\ Len(diag) = 1
  /\ AllFin(ret)
  /\ ret[1].v # 0

\* C3: forceAzi3(force, azi, loc) is exactly components 0, 1 and 5 of
\* forceAzi6(force, azi, loc).
C3_Azi3IsAzi6Selection ==
  FiniteCall("forceAzi3") =>
    LET tau6 == forceAzi6(args.force, args.azi, args.loc)
    IN ret = <<tau6[1], tau6[2], tau6[6]>>

\* A forceAzi3 call whose yaw moment differs from the heave and roll loads.
C3_Witness ==
  /\ FiniteCall("forceAzi3")
  /\ ret[3].v # 0
  /\ ret[1].v # 0
  /\ ret[2].v # 0

\* C4 as claimed: RVGazimuth_man(u=5, v=0, angle=0, revs=165) returns
\* Fx = Ct * 165^2 = 59895 and Fy = 0.
C4_CalibrationPointAsClaimed ==
  (Called("RVGazimuth_man")
     /\ args = [u |-> Whole(5), v |-> Zero, angle |-> Zero, revs |-> Whole(165)])
    => ret = <<Whole(59895), Zero>>

\* C4 as amended: RVGazimuth_man(u=5, v=0, angle=0, revs=165) returns the thrust
\* less the foil drag, Fx = Ct * 165^2 - 0.5 * 1000 * 9 * 0.3 * 5^2
\* = 59895 - 33750 = 26145, and Fy = 0, without a warning.
C4_CalibrationPoint ==
  (Called("RVGazimuth_man")
     /\ args = [u |-> Whole(5), v |-> Zero, angle |-> Zero, revs |-> Whole(165)])
    => (pc = "returned" /\ ret = <<Whole(26145), Zero>> /\ diag = <<>>)

C4_Witness ==
  /\ pc = "returned"
  /\ fn = "RVGazimuth_man"
  /\ args = [u |-> Whole(5), v |-> Zero, angle |-> Zero, revs |-> Whole(165)]
  /\ ret[2] = Zero

\* C5: forceAzi6(force, azi, loc) is [F, loc x F] with F = force * (cos azi,
\* sin azi, 0) (the moment to within the rounding of the products: a thousandth
\* per unit of force and of lever arm); its heave component is 0; and with
\* azi = 0 and loc on the x-axis it is [force, 0, 0, 0, 0, 0].
C5_Azi6IsForceAndMoment ==
  FiniteCall("forceAzi6") =>
    LET F == <<FMul(args.force, FCos(args.azi)), FMul(args.force, FSin(args.azi)), Zero>>
        M == Cross3(args.loc, F)
        tol == 1 + (AbsI(args.force.v) + AbsI(args.loc[1].v) + AbsI(args.loc[2].v)
                      + AbsI(args.loc[3].v)) \div Scale
    IN /\ SubSeq(ret, 1, 3) = F
       /\ \A i \in 1..3 : Near(ret[3 + i], M[i], tol)
       /\ ret[3] = Zero
       /\ (args.azi = Zero /\ args.loc[2] = Zero /\ args.loc[3] = Zero)
            => ret = <<args.force, Zero, Zero, Zero, Zero, Zero>>

\* A forceAzi6 call off the axes, with all three moments at work.
C5_Witness ==
  /\ FiniteCall("forceAzi6")
  /\ \A i \in {1, 2, 4, 5, 6} : ret[i].v # 0

\* C6: Smat(x) @ y is the cross product x * y for all y, Smat(x) is
\* antisymmetric and its diagonal is zero.
C6_SmatIsCrossProduct ==
  FiniteCall("Smat") =>
    /\ \A y \in Locations : MatVec(ret, y) = Cross3(args.x, y)
    /\ \A i \in 1..3 : \A j \in 1..3 : ret[j][i] = FNeg(ret[i][j])
    /\ \A i \in 1..3 : ret[i][i] = Zero

\* Smat of a vector with three different nonzero components.
C6_Witness ==
  /\ FiniteCall("Smat")
  /\ args.x = <<Fin(2500), Fin(-500), One>>
  /\ ret[1][2] = Fin(-Scale)

\* C7 as claimed: for finite a, rad2pipi(a) lies in (-pi, pi], and -pi is mapped
\* to +pi.
C7_HalfOpenRange ==
  (FiniteCall("rad2pipi"))
    => /\ ret.v > -PiAngle.v
       /\ ret.v <= PiAngle.v
       /\ args.angle = FNeg(PiAngle) => ret = PiAngle

\* C7 as amended: for finite a, rad2pipi(a) lies in the closed interval
\* [-pi, pi]; an angle already in it is returned as it is, -pi included (it is
\* not mapped to +pi).
C7_ClosedRange ==
  FiniteCall("rad2pipi") =>
    /\ IsFin(ret)
    /\ ret.v >= -PiAngle.v
    /\ ret.v <= PiAngle.v
    /\ AbsI(args.angle.v) <= PiAngle.v => ret = args.angle

C7_Witness ==
  /\ pc = "returned"
  /\ fn = "rad2pipi"
  /\ args.angle = FNeg(PiAngle)
  /\ ret = FNeg(PiAngle)

\* C8: for finite angles Rotx(a), Roty(a), Rotz(a) and Rotzyx([phi, theta,
\* psi]) = Rotz(psi) @ Roty(theta) @ Rotx(phi) are proper orthonormal matrices
\* (R^T R = I and det R = 1 to within 0.01), and Rotz(0) and Rotzyx([0,0,0]) are
\* the identity.
C8_RotationsAreProper ==
  /\ (\E f \in {"Rotx", "Roty", "Rotz"} : FiniteCall(f))
       => ProperRotation(ret, 10)
  /\ FiniteCall("Rotzyx")
       => /\ ProperRotation(ret, 10)
          /\ ret = MatMul(MatMul(Rotz(args.angles[3]), Roty(args.angles[2])),
                          Rotx(args.angles[1]))
          /\ args.angles = <<Zero, Zero, Zero>> => ret = Identity3
  /\ (FiniteCall("Rotz") /\ args.angle = Zero) => ret = Identity3

\* A composed rotation with all three angles at work.
C8_Witness ==
  /\ FiniteCall("Rotzyx")
  /\ \A i \in 1..3 : args.angles[i].v # 0
  /\ \A i \in 1..3 : \A j \in 1..3 : ret[i][j].v # 0

\* C9: every transform called with a NaN or infinite argument fails with
\* InvalidInput instead of returning a result.
C9_NonFiniteInputRaises ==
  (pc # "idle" /\ NonFiniteArgs) => (pc = "raised" /\ err = "InvalidInput")

\* C10: RVGazimuth_man(u, v, angle, -revs) returns what RVGazimuth_man(u, v,
\* angle, revs) returns, and the thrust term Ct * revs^2 is never negative.
C10_RevsSignIgnored ==
  FiniteCall("RVGazimuth_man") =>
    /\ RVGazimuth_man(args.u, args.v, args.angle, FNeg(args.revs))
         = [ret |-> ret, diag |-> diag, err |-> err]
    /\ Fthrust(args.revs).v >= 0
    /\ Fthrust(args.revs) = Fthrust(FNeg(args.revs))

\* A reversed propeller at the calibration rpm.
C10_Witness ==
  /\ FiniteCall("RVGazimuth_man")
  /\ pc = "returned"
  /\ args.revs = Whole(-165)
  /\ Fthrust(args.revs) = Whole(59895)

====
